---- MODULE Spec2Model ----
(***************************************************************************)
(* A model of the AA tree of src/aa.rs: Tree { root, size }, Node { key,   *)
(* value, left, right, level }, the rotations skew and split, and the      *)
(* operations Tree::new, Tree::find and Tree::insert.                      *)
(*                                                                         *)
(* A Link<T> = Option<Box<T>> is a sequence: <<>> is None and <<n>> is     *)
(* Some(box n).  An Option<V> is modelled the same way.  A key is a record *)
(* [ord, inst]: Ord compares ord only, inst tells apart two key instances  *)
(* that compare Equal.  A raw pointer to a slot (a *mut Link or Box) is    *)
(* the sequence of "left"/"right" fields that leads from Tree.root to it.  *)
(***************************************************************************)
EXTENDS Integers, Sequences, FiniteSets

VARIABLES root, size, op, ret, latest, pc, current, path, splitIn, splitOut

vars == <<root, size, op, ret, latest, pc, current, path, splitIn, splitOut>>

\* Bounds of the model.
NumKeys == 3
NumInsts == 2
NumVals == 2
TreeKeys == 11
SplitNodes == 5
SplitLevels == 2

\* the keys and values the calls of Spec draw from
KeyInsts == [ord : 1..NumKeys, inst : 1..NumInsts]
Values == 1..NumVals
\* the keys the calls of TreeSpec and StepSpec draw from; they store the unit value
TreeKeyInsts == [ord : 1..TreeKeys, inst : {1}]
Unit == 0
AllOrds == 1..(IF NumKeys > TreeKeys THEN NumKeys ELSE TreeKeys)

None == <<>>
Some(x) == <<x>>

----------------------------------------------------------------------------
\* Node, its methods and the rotations

\* Ord::cmp on keys
cmp(a, b) == IF a.ord < b.ord THEN "Less" ELSE IF a.ord > b.ord THEN "Greater" ELSE "Equal"

\* Node::new
NewNode(key, value) == [key |-> key, value |-> value, left |-> None, right |-> None, level |-> 1]

RECURSIVE max(_)
max(n) == IF n.right = None THEN n.key ELSE max(n.right[1])

RECURSIVE min(_)
min(n) == IF n.left = None THEN n.key ELSE min(n.left[1])

RECURSIVE is_bst(_)
is_bst(n) ==
    LET check_left == IF n.left = None THEN TRUE
                      ELSE is_bst(n.left[1]) /\ cmp(max(n.left[1]), n.key) = "Less"
    IN  IF check_left
        THEN IF n.right = None THEN TRUE
             ELSE is_bst(n.right[1]) /\ cmp(min(n.right[1]), n.key) = "Greater"
        ELSE FALSE

RECURSIVE is_aa(_)
is_aa(n) ==
    IF ~is_bst(n) THEN FALSE
    ELSE IF n.left # None /\ (~is_aa(n.left[1]) \/ n.left[1].level + 1 # n.level) THEN FALSE
    ELSE IF n.right = None THEN TRUE
    ELSE LET r == n.right[1] IN
         IF ~is_aa(r) THEN FALSE
         ELSE IF r.level # n.level /\ r.level + 1 # n.level THEN FALSE
         ELSE IF r.level = n.level /\ r.right # None /\ r.right[1].level = r.level THEN FALSE
         ELSE TRUE

\* skew with the rotation left out
skew_never(node) == node

\* skew that hangs the old node on the wrong side of the new subtree root
skew_wrong_side(node) ==
    IF node.left # None /\ node.left[1].level = node.level
    THEN LET save0 == node.left[1]
             node1 == [node EXCEPT !.left = save0.right]
             save1 == [save0 EXCEPT !.right = None]
         IN  [save1 EXCEPT !.left = Some(node1)]
    ELSE node

\* skew that forgets to hand the left child's right subtree to the old node
skew_drop(node) ==
    IF node.left # None /\ node.left[1].level = node.level
    THEN LET save0 == node.left[1]
             node1 == [node EXCEPT !.left = None]
         IN  [save0 EXCEPT !.right = Some(node1)]
    ELSE node

\* skew(node: &mut Box<Node>): the value the slot holds afterwards
skew(node) ==
    IF node.left # None /\ node.left[1].level = node.level
    THEN LET save0 == node.left[1]                        \* node.left.take_unwrap()
             node1 == [node EXCEPT !.left = None]
             node2 == [node1 EXCEPT !.left = save0.right] \* swap(&mut node.left, &mut save.right)
             save1 == [save0 EXCEPT !.right = node1.left]
             \* swap(node, &mut save): the slot holds save1, save holds node2
         IN  [save1 EXCEPT !.right = Some(node2)]         \* node.right = Some(save)
    ELSE node

\* split without the level increment
split_no_level(node) ==
    IF node.right # None /\ node.right[1].right # None
       /\ node.right[1].right[1].level = node.level
    THEN LET save0 == node.right[1]
             node1 == [node EXCEPT !.right = save0.left]
             save1 == [save0 EXCEPT !.left = None]
         IN  [save1 EXCEPT !.left = Some(node1)]
    ELSE node

\* split that fires on a single horizontal right link
split_eager(node) ==
    IF node.right # None /\ node.right[1].level = node.level
    THEN LET save0 == node.right[1]
             node1 == [node EXCEPT !.right = save0.left]
             save1 == [save0 EXCEPT !.left = None, !.level = @ + 1]
         IN  [save1 EXCEPT !.left = Some(node1)]
    ELSE node

\* split(node: &mut Box<Node>): the value the slot holds afterwards
split(node) ==
    IF node.right # None /\ node.right[1].right # None
       /\ node.right[1].right[1].level = node.level
    THEN LET save0 == node.right[1]                        \* node.right.take_unwrap()
             node1 == [node EXCEPT !.right = None]
             node2 == [node1 EXCEPT !.right = save0.left]  \* swap(&mut node.right, &mut save.left)
             save1 == [save0 EXCEPT !.left = node1.right]
             save2 == [save1 EXCEPT !.level = @ + 1]       \* save.level += 1
             \* swap(node, &mut save): the slot holds save2, save holds node2
         IN  [save2 EXCEPT !.left = Some(node2)]           \* node.left = Some(save)
    ELSE node

----------------------------------------------------------------------------
\* Raw slot pointers

\* *p for a slot pointer p (a sequence of field names from Tree.root)
RECURSIVE SlotGet(_, _)
SlotGet(link, p) ==
    IF p = <<>> THEN link
    ELSE SlotGet(IF Head(p) = "left" THEN link[1].left ELSE link[1].right, Tail(p))

\* *p = new for a slot pointer p: the tree's root link afterwards
RECURSIVE SlotSet(_, _, _)
SlotSet(link, p, new) ==
    IF p = <<>> THEN new
    ELSE IF Head(p) = "left"
         THEN Some([link[1] EXCEPT !.left = SlotSet(link[1].left, Tail(p), new)])
         ELSE Some([link[1] EXCEPT !.right = SlotSet(link[1].right, Tail(p), new)])

----------------------------------------------------------------------------
\* Tree

\* Tree::find: the loop from `current`
RECURSIVE find(_, _)
find(link, key) ==
    IF link = None THEN None
    ELSE LET r == link[1] IN
         CASE cmp(key, r.key) = "Less" -> find(r.left, key)
           [] cmp(key, r.key) = "Greater" -> find(r.right, key)
           [] OTHER -> Some(r.value)

\* Tree::insert, the descent of the outer loop: from slot cur with the
\* path pushed so far, to the slot where the loop leaves the descent
RECURSIVE Descend(_, _, _, _)
Descend(tree, key, cur, pth) ==
    LET link == SlotGet(tree, cur) IN
    IF link = None THEN [current |-> cur, path |-> pth, found |-> FALSE]
    ELSE CASE cmp(key, link[1].key) = "Less" ->
                Descend(tree, key, Append(cur, "left"), Append(pth, cur))
           [] cmp(key, link[1].key) = "Greater" ->
                Descend(tree, key, Append(cur, "right"), Append(pth, cur))
           [] OTHER -> [current |-> cur, path |-> pth, found |-> TRUE]

\* one pass of the pop loop that splits before it skews
PopOne_split_first(tree, n) == SlotSet(tree, n, Some(skew(split(SlotGet(tree, n)[1]))))

\* Tree::insert, one pass of the pop loop on the popped slot n: skew(n); split(n)
PopOne(tree, n) == SlotSet(tree, n, Some(split(skew(SlotGet(tree, n)[1]))))

\* a pop loop that stops after the deepest entry
PopAll_only_deepest(tree, pth) ==
    IF pth = <<>> THEN tree ELSE PopOne(tree, pth[Len(pth)])

\* Tree::insert, the pop loop until path.pop() is None
RECURSIVE PopAll(_, _)
PopAll(tree, pth) ==
    IF pth = <<>> THEN tree
    ELSE PopAll(PopOne(tree, pth[Len(pth)]), SubSeq(pth, 1, Len(pth) - 1))

\* the Equal branch without `n.key = key`
Replace_keep_key(tree, cur, key, value) ==
    SlotSet(tree, cur, Some([SlotGet(tree, cur)[1] EXCEPT !.value = value]))

\* Tree::insert, the Equal branch: n.key = key; replace(&mut n.value, value)
Replace(tree, cur, key, value) ==
    SlotSet(tree, cur, Some([SlotGet(tree, cur)[1] EXCEPT !.key = key, !.value = value]))

\* Tree::insert that counts every call in size
insert_always_counts(tree, sz, key, value) ==
    LET d == Descend(tree, key, <<>>, <<>>) IN
    IF d.found
    THEN [root |-> Replace(tree, d.current, key, value), size |-> sz + 1,
          ret |-> Some(SlotGet(tree, d.current)[1].value)]
    ELSE [root |-> PopAll(SlotSet(tree, d.current, Some(NewNode(key, value))), d.path),
          size |-> sz + 1, ret |-> None]

\* Tree::insert that leaves the old value in place on an Equal key
insert_keeps_value(tree, sz, key, value) ==
    LET d == Descend(tree, key, <<>>, <<>>) IN
    IF d.found
    THEN [root |-> tree, size |-> sz, ret |-> Some(SlotGet(tree, d.current)[1].value)]
    ELSE [root |-> PopAll(SlotSet(tree, d.current, Some(NewNode(key, value))), d.path),
          size |-> sz + 1, ret |-> None]

\* Tree::insert as one call: the tree, the size and the returned Option<V>
insert(tree, sz, key, value) ==
    LET d == Descend(tree, key, <<>>, <<>>) IN
    IF d.found
    THEN [root |-> Replace(tree, d.current, key, value), size |-> sz,
          ret |-> Some(SlotGet(tree, d.current)[1].value)]
    ELSE [root |-> PopAll(SlotSet(tree, d.current, Some(NewNode(key, value))), d.path),
          size |-> sz + 1, ret |-> None]

\* Tree::is_bst
Tree_is_bst(tree) == IF tree = None THEN TRUE ELSE is_bst(tree[1])

\* Tree::is_aa
Tree_is_aa(tree) == IF tree = None THEN TRUE ELSE is_aa(tree[1])

----------------------------------------------------------------------------
\* The state machine

\* Tree::new(); no call made yet
Init ==
    /\ root = None
    /\ size = 0
    /\ op = "new"
    /\ ret = None
    /\ latest = [o \in AllOrds |-> None]
    /\ pc = "idle"
    /\ current = <<>>
    /\ path = <<>>
    /\ splitIn = None
    /\ splitOut = None

\* a whole call of insert(key, value)
Insert(key, value) ==
    LET r == insert(root, size, key, value) IN
    /\ pc = "idle"
    /\ op' = "insert"
    /\ latest' = [latest EXCEPT ![key.ord] = Some([key |-> key, value |-> value])]
    /\ root' = r.root
    /\ size' = r.size
    /\ ret' = r.ret
    /\ UNCHANGED <<pc, current, path, splitIn, splitOut>>

\* a whole call of find(key)
Find(key) ==
    /\ pc = "idle"
    /\ ret' = find(root, key)
    /\ op' = "find"
    /\ UNCHANGED <<root, size, latest, pc, current, path, splitIn, splitOut>>

Next ==
    \/ \E key \in KeyInsts, value \in Values : Insert(key, value)
    \/ \E key \in KeyInsts : Find(key)

\* calls with keys and values of several instances, each call one step
Spec == Init /\ [][Next]_vars

TreeNext ==
    \/ \E key \in TreeKeyInsts : Insert(key, Unit)
    \/ \E key \in TreeKeyInsts : Find(key)

\* calls over a larger key range, each call one step
TreeSpec == Init /\ [][TreeNext]_vars

----------------------------------------------------------------------------
\* insert one loop pass at a time

\* insert(key, value) up to the return of the Equal branch
InsertEqual(key, value) ==
    LET d == Descend(root, key, <<>>, <<>>) IN
    /\ pc = "idle"
    /\ d.found
    /\ root' = Replace(root, d.current, key, value)
    /\ ret' = Some(SlotGet(root, d.current)[1].value)
    /\ op' = "insert"
    /\ latest' = [latest EXCEPT ![key.ord] = Some([key |-> key, value |-> value])]
    /\ UNCHANGED <<size, pc, current, path, splitIn, splitOut>>

\* insert(key, value) up to `*current = Some(box Node::new(key, value))`
InsertNew(key, value) ==
    LET d == Descend(root, key, <<>>, <<>>) IN
    /\ pc = "idle"
    /\ ~d.found
    /\ root' = SlotSet(root, d.current, Some(NewNode(key, value)))
    /\ current' = d.current
    /\ path' = d.path
    /\ pc' = "pop"
    /\ op' = "insert"
    /\ latest' = [latest EXCEPT ![key.ord] = Some([key |-> key, value |-> value])]
    /\ UNCHANGED <<size, ret, splitIn, splitOut>>

\* one pass of the inner loop with path.pop() = Some(n)
PopStep ==
    /\ pc = "pop"
    /\ path # <<>>
    /\ root' = PopOne(root, path[Len(path)])
    /\ path' = SubSeq(path, 1, Len(path) - 1)
    /\ UNCHANGED <<size, op, ret, latest, pc, current, splitIn, splitOut>>

\* path.pop() = None: break; self.size += 1; return None
InsertReturn ==
    /\ pc = "pop"
    /\ path = <<>>
    /\ size' = size + 1
    /\ ret' = None
    /\ pc' = "idle"
    /\ current' = <<>>
    /\ UNCHANGED <<root, op, latest, path, splitIn, splitOut>>

StepNext ==
    \/ \E key \in TreeKeyInsts : InsertEqual(key, Unit)
    \/ \E key \in TreeKeyInsts : InsertNew(key, Unit)
    \/ PopStep
    \/ InsertReturn

StepSpec == Init /\ [][StepNext]_vars

----------------------------------------------------------------------------
\* split on its own

\* Node { key, value, left, right, level } with the fields given
MakeNode(ord, lv, l, r) ==
    [key |-> [ord |-> ord, inst |-> 1], value |-> Unit, left |-> l, right |-> r, level |-> lv]

\* the subtrees whose in-order keys are lo..hi, every level drawn from 1..SplitLevels
RECURSIVE TreesOn(_, _)
TreesOn(lo, hi) ==
    IF lo > hi THEN {None}
    ELSE UNION {
           { Some(MakeNode(m, lv, l, r)) :
               l \in TreesOn(lo, m - 1), r \in TreesOn(m + 1, hi), lv \in 1..SplitLevels }
           : m \in lo..hi }

\* split is handed any subtree of at most SplitNodes nodes, whatever its levels
SplitInit ==
    /\ root = None
    /\ size = 0
    /\ op = "new"
    /\ ret = None
    /\ latest = [o \in AllOrds |-> None]
    /\ pc = "idle"
    /\ current = <<>>
    /\ path = <<>>
    /\ \E n \in 1..SplitNodes, m \in 1..SplitNodes, lv \in 1..SplitLevels :
          /\ m <= n
          /\ \E l \in TreesOn(1, m - 1), r \in TreesOn(m + 1, n) :
                splitIn = Some(MakeNode(m, lv, l, r))
    /\ splitOut = None

\* split(&mut node) on the slot that holds splitIn
ApplySplit ==
    /\ splitOut = None
    /\ splitOut' = Some(split(splitIn[1]))
    /\ UNCHANGED <<root, size, op, ret, latest, pc, current, path, splitIn>>

SplitSpec == SplitInit /\ [][ApplySplit]_vars

----------------------------------------------------------------------------
\* What the properties speak of

\* the nodes of a subtree
RECURSIVE Nodes(_)
Nodes(link) ==
    IF link = None THEN {}
    ELSE {link[1]} \cup Nodes(link[1].left) \cup Nodes(link[1].right)

\* the number of nodes of a subtree
RECURSIVE Count(_)
Count(link) == IF link = None THEN 0 ELSE 1 + Count(link[1].left) + Count(link[1].right)

\* the keys of a subtree, as the order sees them
RECURSIVE Keys(_)
Keys(link) ==
    IF link = None THEN {}
    ELSE {link[1].key.ord} \cup Keys(link[1].left) \cup Keys(link[1].right)

\* the keys of a subtree from left to right
RECURSIVE InOrder(_)
InOrder(link) ==
    IF link = None THEN <<>>
    ELSE InOrder(link[1].left) \o <<link[1].key>> \o InOrder(link[1].right)

\* the number of nodes on the longest path from a link down to an absent slot
RECURSIVE Height(_)
Height(link) ==
    IF link = None THEN 0
    ELSE LET l == Height(link[1].left)
             r == Height(link[1].right)
         IN  1 + (IF l > r THEN l ELSE r)

RECURSIVE Pow2(_)
Pow2(e) == IF e = 0 THEN 1 ELSE 2 * Pow2(e - 1)

\* the three level rules at one node
LevelRulesAt(n) ==
    /\ n.left # None => n.left[1].level = n.level - 1
    /\ n.right # None => n.right[1].level \in {n.level, n.level - 1}
    /\ (n.right # None /\ n.right[1].level = n.level /\ n.right[1].right # None)
          => n.right[1].right[1].level # n.level

\* the search order at one node
OrderAt(n) ==
    /\ \A k \in Keys(n.left) : k < n.key.ord
    /\ \A k \in Keys(n.right) : k > n.key.ord

\* a subtree with the key and the value of the node that compares Equal to
\* key overwritten, and nothing else touched
RECURSIVE Overwritten(_, _, _)
Overwritten(link, key, value) ==
    IF link = None THEN None
    ELSE LET n == link[1] IN
         Some([key |-> IF n.key.ord = key.ord THEN key ELSE n.key,
               value |-> IF n.key.ord = key.ord THEN value ELSE n.value,
               left |-> Overwritten(n.left, key, value),
               right |-> Overwritten(n.right, key, value),
               level |-> n.level])

\* the value stored under a key that is in the tree
StoredValue(link, key) == (CHOOSE n \in Nodes(link) : n.key.ord = key.ord).value

----------------------------------------------------------------------------
\* Properties

\* C1: after every insert the three AA level rules hold at every node: a left
\* child is exactly one level below its parent, a right child is at its parent's
\* level or one below, and a right child at its parent's level has no right child
\* at that level too.
\* The tests assert it as t.is_aa() after the inserts.
C1_LevelRules ==
    /\ \A n \in Nodes(root) : LevelRulesAt(n)
    /\ Tree_is_aa(root)

C1_Witness ==
    /\ op = "insert"
    /\ size >= 7
    /\ root[1].level = 3
    /\ \E n \in Nodes(root) : n.right # None /\ n.right[1].level = n.level

\* C2: after every insert every key of a node's left subtree is less than the
\* node's key and every key of its right subtree is greater, so no key is in
\* two nodes.
C2_SearchOrder ==
    /\ \A n \in Nodes(root) : OrderAt(n)
    /\ Count(root) = Cardinality(Keys(root))
    /\ Tree_is_bst(root)

C2_Witness ==
    /\ op = "insert"
    /\ size >= 7
    /\ root[1].left # None /\ root[1].left[1].left # None
    /\ root[1].right # None /\ root[1].right[1].right # None

\* C3: find(k) returns the value of the most recent insert of k, and None when
\* k was never inserted, whatever was inserted since.
C3_FindLatest ==
    \A k \in KeyInsts :
       find(root, k) = IF latest[k.ord] = None THEN None ELSE Some(latest[k.ord][1].value)

C3_Witness ==
    /\ size = 3
    /\ root[1].level = 2
    /\ \E k \in KeyInsts : find(root, k) = Some(2)
    /\ \E k \in KeyInsts : find(root, k) = Some(1)

\* C4: insert(k, v) returns Some(p), p the value stored under k before the call,
\* and leaves size alone when k is stored; it returns None and adds one to size
\* when k is not stored.
C4_InsertResult ==
    [][op' = "insert" =>
         \A key \in KeyInsts, value \in Values :
            Insert(key, value) =>
               IF key.ord \in Keys(root)
               THEN ret' = Some(StoredValue(root, key)) /\ size' = size
               ELSE ret' = None /\ size' = size + 1]_vars

C4_Witness ==
    /\ op = "insert"
    /\ ret # None
    /\ size >= 2
    /\ \E n \in Nodes(root) : Some(n.value) # ret

\* C5: size is the number of nodes reachable from root, which is the number of
\* distinct keys inserted so far; the new tree has size 0 and no root.
C5_SizeCountsNodes ==
    /\ size = Count(root)
    /\ size = Cardinality({o \in AllOrds : latest[o] # None})
    /\ Keys(root) = {o \in AllOrds : latest[o] # None}
    /\ (size = 0 <=> root = None)

C5_Witness ==
    /\ op = "insert"
    /\ size = TreeKeys
    /\ root[1].level = 3

\* C6: insert(k, v) with k stored changes no link, no level, not the size and
\* no other node's key or value; the node that compares Equal holds the
\* supplied key instance and the supplied value.
C6_EqualIsInPlace ==
    [][op' = "insert" =>
         \A key \in KeyInsts, value \in Values :
            (Insert(key, value) /\ key.ord \in Keys(root)) =>
               /\ root' = Overwritten(root, key, value)
               /\ size' = size]_vars

C6_Witness ==
    /\ op = "insert"
    /\ ret = Some(1)
    /\ size = 3
    /\ \E n \in Nodes(root) : n.key.inst = 2 /\ n.value = 2 /\ n.left # None /\ n.right # None

\* C7: with h the number of nodes on the longest path from the root to an
\* absent slot, 2^ceil(h/2) - 1 <= size.
C7_LogHeight == Pow2((Height(root) + 1) \div 2) - 1 <= size

C7_Witness ==
    /\ op = "insert"
    /\ Height(root) = 5
    /\ size = 10

\* C8: while insert walks the recorded path back, the subtree in the slot it
\* has just processed (the new leaf's slot before the first pass) is in search
\* order and keeps the three level rules, and so is every subtree whose slot is
\* not an entry still on the path.
C8_ProcessedSubtreeValid ==
    pc = "pop" =>
       LET done == SlotGet(root, SubSeq(current, 1, Len(path)))
           waiting == { SlotGet(root, path[i])[1] : i \in 1..Len(path) }
       IN  /\ is_aa(done[1])
           /\ \A n \in Nodes(done) : LevelRulesAt(n) /\ OrderAt(n)
           /\ \A n \in Nodes(root) \ waiting : LevelRulesAt(n) /\ OrderAt(n)

C8_Witness ==
    /\ pc = "pop"
    /\ Len(path) >= 1
    /\ Len(path) + 2 <= Len(current)
    /\ SlotGet(root, SubSeq(current, 1, Len(path)))[1].level = 2
    /\ ~ \A n \in Nodes(root) : LevelRulesAt(n)

\* C9: split rotates exactly when node.right and node.right.right exist and
\* node.right.right.level = node.level.  Then the former right child is the
\* subtree root, one level up; the old node is its left child at its old level
\* with the former right child's left subtree as right subtree; nothing else
\* changes and the keys keep their left-to-right order.  Otherwise the subtree
\* is as it was.
C9_Split ==
    splitOut # None =>
       LET a == splitIn[1]
           out == splitOut[1]
           rotates == /\ a.right # None
                      /\ a.right[1].right # None
                      /\ a.right[1].right[1].level = a.level
       IN  /\ (out # a) <=> rotates
           /\ rotates =>
                LET b == a.right[1] IN
                /\ out.key = b.key /\ out.value = b.value
                /\ out.level = b.level + 1
                /\ out.right = b.right
                /\ out.left = Some([key |-> a.key, value |-> a.value, level |-> a.level,
                                    left |-> a.left, right |-> b.left])
                /\ InOrder(splitOut) = InOrder(splitIn)

C9_Witness ==
    /\ splitOut # None
    /\ splitOut # splitIn
    /\ splitOut[1].left[1].left # None
    /\ splitOut[1].left[1].right # None
    /\ splitOut[1].level = 3

\* C10: every node with an absent left or right child has level 1.
C10_MissingChildLevelOne ==
    \A n \in Nodes(root) : (n.left = None \/ n.right = None) => n.level = 1

C10_Witness ==
    /\ op = "insert"
    /\ root # None
    /\ root[1].level = 3
    /\ \E n \in Nodes(root) : n.left = None /\ n.right # None

====
